---- MODULE Spec2Model ----
(***************************************************************************)
(* pwm-gpio.c: PWM output on a GPIO line driven by a high resolution timer *)
(*                                                                         *)
(* One PWM channel (chip.npwm = 1): struct gpio_pwm_data, its hrtimer and  *)
(* callback gpio_pwm_timer, and the pwm_ops config, set_polarity, enable,  *)
(* disable, request and free, called by concurrent caller threads.         *)
(*                                                                         *)
(* A caller blocked in mutex_lock is a caller that has not yet taken its   *)
(* first step, so every call begins with the step that acquires the lock.  *)
(* The timer callback takes no lock; it runs in five steps (entry; the     *)
(* reads of pin_on and polarity; the write of the line; the store of       *)
(* pin_on; hrtimer_forward_now and return) that interleave with the steps  *)
(* of the callers and of the clock.                                        *)
(*                                                                         *)
(* Time is in nanoseconds.  Values that may exceed the signed 32-bit range *)
(* (the unsigned int fields on_time/off_time, and the ktime_t values made  *)
(* from them) are written exactly as records [hi, lo] that stand for       *)
(* hi * 2^32 + lo.                                                         *)
(***************************************************************************)
EXTENDS Integers, FiniteSets, Sequences, TLC

\* ---------------------------------------------------------------- bounds
NThreads == 2          \* caller threads
MaxNs    == 2          \* duty_ns and period_ns are drawn from 0..MaxNs
MaxTime  == 2          \* the monotonic clock runs from 0 to MaxTime
MaxLeak  == 1          \* cap on the count of allocations never freed

Threads == 1..NThreads
Ns      == 0..MaxNs

\* ------------------------------------------------------ program constants
EBUSY  == 16           \* enable returns -EBUSY
ENOMEM == 12           \* request returns -ENOMEM
EGPIO  == 2            \* PTR_ERR(gpio_pwm), e.g. -ENOENT
\* TICK_NSEC, the hrtimer_resolution of low resolution mode (HZ = 250)
TICK_NSEC == 4000000
\* what a mutex_lock finds in the zeroed, never initialised mutex on a kernel
\* whose mutex counts 1 as unlocked: locked, with no owner
MUTEX_STUCK == -1

VARIABLES
    hres_active,   \* hrtimer_is_hres_active(&gpio_data->timer)
    chip_data,     \* pwm->chip_data: "null", "data" (points to gpio_pwm_data),
                   \* "freed" (points to the gpio_pwm_data that was freed) or
                   \* "reused" (points to the freed gpio_pwm_data, and the
                   \* kzalloc of a failed request has got that block again)
    is_running,    \* gpio_data->is_running
    polarity,      \* gpio_data->polarity   (TRUE: inversed)
    pin_on,        \* gpio_data->pin_on
    on_time,       \* gpio_data->on_time    (unsigned int, as [hi, lo])
    off_time,      \* gpio_data->off_time   (unsigned int, as [hi, lo])
    lock,          \* gpio_data->lock: 0 (unlocked), the owning thread, or
                   \* MUTEX_STUCK
    timer,         \* gpio_data->timer: [queued, expires, cb, level]; cb is
                   \* where the executing callback is ("none": not executing),
                   \* level the level it has computed and not yet written
    gpio,          \* the output line: [value, seq]; seq flips at every write
    now,           \* CLOCK_MONOTONIC
    pc,            \* pc[t]: where caller thread t is ("oops": killed by a
                   \* bad pointer dereference)
    arg,           \* arg[t]: <<duty_ns, period_ns>> of the config call in
                   \* progress, <<polarity, 0>> of the set_polarity call
    ret,           \* the value returned by the call that returned last
    freeing,       \* TRUE while gpio_pwm_free is executing
    leaked,        \* gpio_pwm_data allocations that nothing refers to any more
    stopped        \* history of disable since the timer was last started:
                   \* "no": no disable has returned; "on"/"off": the last one
                   \* stopped the engine in that phase; "idle": disable found a
                   \* never started channel stopped; "again": disable found
                   \* the channel stopped by an earlier disable

vars == <<hres_active, chip_data, is_running, polarity, pin_on, on_time, off_time, lock,
          timer, gpio, now, pc, arg, ret, freeing, leaked, stopped>>

data_vars == <<is_running, polarity, pin_on, on_time, off_time>>

\* ------------------------------------------------- wide (64-bit) numbers
\* [hi, lo] stands for hi * 2^32 + lo, with -2^31 <= lo < 2^31.
Wide(h, l) == [hi |-> h, lo |-> l]

\* mutant: a negative difference is stored as 0
ToUnsignedClamped(x) == IF x < 0 THEN Wide(0, 0) ELSE Wide(0, x)

\* An int converted to unsigned int: x mod 2^32.
ToUnsigned(x) == IF x < 0 THEN Wide(1, x) ELSE Wide(0, x)

\* ns_to_ktime(unsigned int): zero extension, the value is kept.
ns_to_ktime(u) == u

KtAdd(a, b)  == Wide(a.hi + b.hi, a.lo + b.lo)
KtLess(a, b) == \/ a.hi < b.hi
                \/ a.hi = b.hi /\ a.lo < b.lo
KtLeq(a, b)  == ~KtLess(b, a)

\* ------------------------------------------------------------- hrtimer
\* hrtimer_resolution: HIGH_RES_NSEC with high resolution timers active,
\* else LOW_RES_NSEC = TICK_NSEC (gpio_pwm_request only warns and goes on)
hrtimer_resolution == IF hres_active THEN 1 ELSE TICK_NSEC

\* hrtimer_forward(timer, now, interval): the new expiry time.
hrtimer_forward(expires, nw, interval) ==
    IF KtLess(Wide(0, nw), expires)
    THEN expires                                 \* delta < 0: return 0
    ELSE LET iv == IF KtLess(interval, Wide(0, hrtimer_resolution))
                   THEN Wide(0, hrtimer_resolution) ELSE interval
             delta == nw - expires.lo            \* expires <= now: hi = 0
         IN IF KtLeq(iv, Wide(0, delta))         \* delta >= interval
            THEN LET orun == delta \div iv.lo
                     e1   == Wide(0, expires.lo + iv.lo * orun)
                 IN IF KtLess(Wide(0, nw), e1) THEN e1 ELSE KtAdd(e1, iv)
            ELSE KtAdd(expires, iv)

\* mutant: the interval is added to the current time
hrtimer_forward_from_now(expires, interval) == KtAdd(Wide(0, now), interval)

\* hrtimer_forward_now(timer, interval)
hrtimer_forward_now(expires, interval) == hrtimer_forward(expires, now, interval)

\* hrtimer_init
hrtimer_init ==
    [queued |-> FALSE, expires |-> Wide(0, 0), cb |-> "none", level |-> 0]

\* hrtimer_active: enqueued, or its callback is executing
hrtimer_active(tm) == tm.queued \/ tm.cb # "none"

\* ---------------------------------------------------------------- gpio
\* gpiod_set_value_cansleep(gpio_pwm, v)
gpiod_set_value(v) == [value |-> v, seq |-> 1 - gpio.seq]

\* ------------------------------------------------------------------ Init
Init ==
    /\ hres_active \in BOOLEAN
    /\ chip_data = "null"
    /\ is_running = FALSE
    /\ polarity = FALSE
    /\ pin_on = FALSE
    /\ on_time = Wide(0, 0)
    /\ off_time = Wide(0, 0)
    /\ lock = 0
    /\ timer = hrtimer_init
    /\ gpio = [value |-> 0, seq |-> 0]
    /\ now = 0
    /\ pc = [t \in Threads |-> "idle"]
    /\ arg = [t \in Threads |-> <<0, 0>>]
    /\ ret = 0
    /\ freeing = FALSE
    /\ leaked = 0
    /\ stopped = "no"

AllIdle == \A t \in Threads : pc[t] = "idle"

\* No call is in progress: a caller that was killed executes nothing more.
NoCall == \A t \in Threads : pc[t] \in {"idle", "oops"}

\* A caller thread may start a pwm_ops call on the requested channel.
CanCall(t) == pc[t] = "idle" /\ chip_data = "data" /\ ~freeing

\* --------------------------------------------------------------- request
\* gpio_pwm_request: kzalloc fails.
RequestNoMem(t) ==
    /\ pc[t] = "idle" /\ NoCall /\ chip_data # "data"
    /\ ret' = -ENOMEM
    /\ UNCHANGED <<hres_active, chip_data, data_vars, lock, timer, gpio, now, pc, arg,
                   freeing, leaked, stopped>>

\* gpio_pwm_request: kzalloc succeeds, gpiod_get fails: returns PTR_ERR
\* without kfree(gpio_data).  pwm->chip_data is not written; the block that
\* kzalloc has returned, zeroed, may be the one it still points to.
RequestNoGpio(t) ==
    /\ pc[t] = "idle" /\ NoCall /\ chip_data # "data"
    /\ leaked < MaxLeak
    /\ leaked' = leaked + 1
    /\ ret' = -EGPIO
    /\ chip_data' \in (IF chip_data = "freed" THEN {"freed", "reused"}
                                               ELSE {chip_data})
    /\ UNCHANGED <<hres_active, data_vars, lock, timer, gpio, now, pc, arg,
                   freeing, stopped>>

\* mutant: gpiod_get with GPIOD_ASIS, the line is not driven
RequestOkAsIs(t) ==
    /\ pc[t] = "idle" /\ NoCall /\ chip_data # "data"
    /\ chip_data' = "data"
    /\ is_running' = FALSE
    /\ polarity' = FALSE
    /\ pin_on' = FALSE
    /\ on_time' = Wide(0, 0)
    /\ off_time' = Wide(0, 0)
    /\ lock' \in {0, MUTEX_STUCK}
    /\ timer' = hrtimer_init
    /\ ret' = 0
    /\ stopped' = "no"
    /\ UNCHANGED <<hres_active, gpio, now, pc, arg, freeing, leaked>>

\* gpio_pwm_request: success.  kzalloc zeroes the structure, gpiod_get with
\* GPIOD_OUT_LOW drives the line low, hrtimer_init leaves the timer inactive.
\* mutex_init is not called: the mutex is the zeroed memory, which reads as
\* unlocked where the owner word 0 means unlocked, and as locked where the
\* count 1 means unlocked.
RequestOk(t) ==
    /\ pc[t] = "idle" /\ NoCall /\ chip_data # "data"
    /\ chip_data' = "data"
    /\ is_running' = FALSE
    /\ polarity' = FALSE
    /\ pin_on' = FALSE
    /\ on_time' = Wide(0, 0)
    /\ off_time' = Wide(0, 0)
    /\ lock' \in {0, MUTEX_STUCK}
    /\ timer' = hrtimer_init
    /\ gpio' = gpiod_set_value(0)
    /\ ret' = 0
    /\ stopped' = "no"
    /\ UNCHANGED <<hres_active, now, pc, arg, freeing, leaked>>

\* ---------------------------------------------------------------- config
\* gpio_pwm_config, lines 88-89: mutex_lock; gpio_data->on_time = duty_ns
ConfigLock(t, duty_ns, period_ns) ==
    /\ CanCall(t) /\ lock = 0
    /\ lock' = t
    /\ on_time' = ToUnsigned(duty_ns)
    /\ pc' = [pc EXCEPT ![t] = "config_90"]
    /\ arg' = [arg EXCEPT ![t] = <<duty_ns, period_ns>>]
    /\ UNCHANGED <<hres_active, chip_data, is_running, polarity, pin_on, off_time, timer,
                   gpio, now, ret, freeing, leaked, stopped>>

\* mutant: off_time = period_ns
ConfigOffTimePeriod(t) ==
    /\ pc[t] = "config_90"
    /\ off_time' = ToUnsigned(arg[t][2])
    /\ lock' = 0
    /\ pc' = [pc EXCEPT ![t] = "idle"]
    /\ arg' = [arg EXCEPT ![t] = <<0, 0>>]
    /\ ret' = 0
    /\ UNCHANGED <<hres_active, chip_data, is_running, polarity, pin_on, on_time,
                   timer, gpio, now, freeing, leaked, stopped>>

\* lines 90-93: gpio_data->off_time = period_ns - duty_ns; mutex_unlock; return 0
ConfigOffTime(t) ==
    /\ pc[t] = "config_90"
    /\ off_time' = ToUnsigned(arg[t][2] - arg[t][1])
    /\ lock' = 0
    /\ pc' = [pc EXCEPT ![t] = "idle"]
    /\ arg' = [arg EXCEPT ![t] = <<0, 0>>]
    /\ ret' = 0
    /\ UNCHANGED <<hres_active, chip_data, is_running, polarity, pin_on, on_time,
                   timer, gpio, now, freeing, leaked, stopped>>

\* ---------------------------------------------------------- set_polarity
\* enum pwm_polarity: PWM_POLARITY_NORMAL and PWM_POLARITY_INVERSED
PWM_POLARITY_NORMAL == 0
PwmPolarities == 0..1

\* gpio_pwm_set_polarity, line 101: mutex_lock
SetPolarityLock(t, pwm_polarity) ==
    /\ CanCall(t) /\ lock = 0
    /\ lock' = t
    /\ pc' = [pc EXCEPT ![t] = "polarity_102"]
    /\ arg' = [arg EXCEPT ![t] = <<pwm_polarity, 0>>]
    /\ UNCHANGED <<hres_active, chip_data, data_vars, timer, gpio, now, ret,
                   freeing, leaked, stopped>>

\* lines 102-105: gpio_data->polarity = (polarity != PWM_POLARITY_NORMAL);
\* mutex_unlock; return 0
SetPolarity(t) ==
    /\ pc[t] = "polarity_102"
    /\ polarity' = (arg[t][1] # PWM_POLARITY_NORMAL)
    /\ lock' = 0
    /\ pc' = [pc EXCEPT ![t] = "idle"]
    /\ arg' = [arg EXCEPT ![t] = <<0, 0>>]
    /\ ret' = 0
    /\ UNCHANGED <<hres_active, chip_data, is_running, pin_on, on_time, off_time,
                   timer, gpio, now, freeing, leaked, stopped>>

\* ---------------------------------------------------------------- enable
\* gpio_pwm_enable, lines 112-114: mutex_lock; the channel is running
EnableLockBusy(t) ==
    /\ CanCall(t) /\ lock = 0
    /\ is_running
    /\ lock' = t
    /\ pc' = [pc EXCEPT ![t] = "enable_115"]
    /\ UNCHANGED <<hres_active, chip_data, data_vars, timer, gpio, now, arg, ret,
                   freeing, leaked, stopped>>

\* lines 115-116: mutex_unlock; return -EBUSY
EnableBusy(t) ==
    /\ pc[t] = "enable_115"
    /\ lock' = 0
    /\ pc' = [pc EXCEPT ![t] = "idle"]
    /\ ret' = -EBUSY
    /\ UNCHANGED <<hres_active, chip_data, data_vars, timer, gpio, now, arg,
                   freeing, leaked, stopped>>

\* mutant: no is_running check
EnableLockUnchecked(t) ==
    /\ CanCall(t) /\ lock = 0
    /\ lock' = t
    /\ is_running' = TRUE
    /\ pc' = [pc EXCEPT ![t] = "enable_120"]
    /\ UNCHANGED <<hres_active, chip_data, polarity, pin_on, on_time, off_time, timer,
                   gpio, now, arg, ret, freeing, leaked, stopped>>

\* lines 112-119: mutex_lock; the channel is not running; is_running = true
EnableLock(t) ==
    /\ CanCall(t) /\ lock = 0
    /\ ~is_running
    /\ lock' = t
    /\ is_running' = TRUE
    /\ pc' = [pc EXCEPT ![t] = "enable_120"]
    /\ UNCHANGED <<hres_active, chip_data, polarity, pin_on, on_time, off_time, timer,
                   gpio, now, arg, ret, freeing, leaked, stopped>>

\* hrtimer_start(timer, ktime_set(0, 0), HRTIMER_MODE_REL)
hrtimer_start(tm) == [tm EXCEPT !.queued = TRUE, !.expires = Wide(0, now)]

\* lines 120-125: hrtimer_start; mutex_unlock; return 0
EnableStart(t) ==
    /\ pc[t] = "enable_120"
    /\ timer' = hrtimer_start(timer)
    /\ lock' = 0
    /\ pc' = [pc EXCEPT ![t] = "idle"]
    /\ ret' = 0
    /\ stopped' = "no"
    /\ UNCHANGED <<hres_active, chip_data, data_vars, gpio, now, arg, freeing, leaked>>

\* --------------------------------------------------------------- disable
\* where gpio_pwm_disable returns to: its caller, or gpio_pwm_free line 181
DisableReturn(t) == IF freeing THEN "free_181" ELSE "idle"

DisableCalled(t) == CanCall(t) \/ pc[t] = "free_180"

\* gpio_pwm_disable, lines 132-134: mutex_lock; the channel is not running
DisableLockStopped(t) ==
    /\ DisableCalled(t) /\ lock = 0
    /\ ~is_running
    /\ lock' = t
    /\ pc' = [pc EXCEPT ![t] = "disable_135"]
    /\ UNCHANGED <<hres_active, chip_data, data_vars, timer, gpio, now, arg, ret,
                   freeing, leaked, stopped>>

\* mutant: the line is driven inactive also when the channel is stopped
DisableStoppedOff(t) ==
    /\ pc[t] = "disable_135"
    /\ gpio' = gpiod_set_value(IF polarity THEN 1 ELSE 0)
    /\ lock' = 0
    /\ pc' = [pc EXCEPT ![t] = DisableReturn(t)]
    /\ UNCHANGED <<hres_active, chip_data, data_vars, timer, now, arg, ret,
                   freeing, leaked, stopped>>

\* lines 135-136: mutex_unlock; return
DisableStopped(t) ==
    /\ pc[t] = "disable_135"
    /\ lock' = 0
    /\ pc' = [pc EXCEPT ![t] = DisableReturn(t)]
    /\ stopped' = (CASE stopped = "no" -> "idle"
                     [] stopped \in {"on", "off"} -> "again"
                     [] OTHER -> stopped)
    /\ UNCHANGED <<hres_active, chip_data, data_vars, timer, gpio, now, arg, ret,
                   freeing, leaked>>

\* lines 132-134: mutex_lock; the channel is running
DisableLock(t) ==
    /\ DisableCalled(t) /\ lock = 0
    /\ is_running
    /\ lock' = t
    /\ pc' = [pc EXCEPT ![t] = "disable_139"]
    /\ UNCHANGED <<hres_active, chip_data, data_vars, timer, gpio, now, arg, ret,
                   freeing, leaked, stopped>>

\* hrtimer_cancel returns once the callback is not executing; the timer is
\* then dequeued.
hrtimer_try_to_cancel_ready(tm) == TRUE        \* mutant: no wait for the callback
hrtimer_cancel_ready(tm) == tm.cb = "none"
hrtimer_cancel_nop(tm) == tm                   \* mutant: the timer stays queued
hrtimer_cancel(tm) == [tm EXCEPT !.queued = FALSE]

\* line 139: hrtimer_cancel
DisableCancel(t) ==
    /\ pc[t] = "disable_139"
    /\ hrtimer_cancel_ready(timer)
    /\ timer' = hrtimer_cancel(timer)
    /\ pc' = [pc EXCEPT ![t] = "disable_140"]
    /\ UNCHANGED <<hres_active, chip_data, data_vars, lock, gpio, now, arg, ret,
                   freeing, leaked, stopped>>

\* gpio_pwm_off: the level written
\* mutant: the levels of the two polarities swapped
gpio_pwm_off_swapped == IF polarity THEN 0 ELSE 1
gpio_pwm_off_value == IF polarity THEN 1 ELSE 0
\* mutant: gpio_pwm_on ignores the polarity
gpio_pwm_on_unpolarized == IF polarity THEN 1 ELSE 1
\* gpio_pwm_on: the level written
gpio_pwm_on_value == IF polarity THEN 0 ELSE 1

\* lines 140-143: gpio_pwm_off; is_running = false; mutex_unlock
\* mutant: disable returns without gpio_pwm_off
DisableOffKeepPin(t) ==
    /\ pc[t] = "disable_140"
    /\ is_running' = FALSE
    /\ lock' = 0
    /\ pc' = [pc EXCEPT ![t] = DisableReturn(t)]
    /\ stopped' = (IF pin_on THEN "on" ELSE "off")
    /\ UNCHANGED <<hres_active, chip_data, polarity, pin_on, on_time, off_time, timer,
                   gpio, now, arg, ret, freeing, leaked>>

DisableOff(t) ==
    /\ pc[t] = "disable_140"
    /\ gpio' = gpiod_set_value(gpio_pwm_off_value)
    /\ pin_on' = FALSE
    /\ is_running' = FALSE
    /\ lock' = 0
    /\ pc' = [pc EXCEPT ![t] = DisableReturn(t)]
    /\ stopped' = (IF pin_on THEN "on" ELSE "off")
    /\ UNCHANGED <<hres_active, chip_data, polarity, on_time, off_time, timer, now, arg,
                   ret, freeing, leaked>>

\* ------------------------------------------------------------------ free
\* gpio_pwm_free, lines 178-180: calls gpio_pwm_disable
\* mutant: free does not call gpio_pwm_disable
FreeCallNoDisable(t) ==
    /\ pc[t] = "idle" /\ NoCall /\ chip_data = "data" /\ ~freeing
    /\ freeing' = TRUE
    /\ pc' = [pc EXCEPT ![t] = "free_181"]
    /\ UNCHANGED <<hres_active, chip_data, data_vars, lock, timer, gpio, now, arg, ret, leaked, stopped>>

FreeCall(t) ==
    /\ pc[t] = "idle" /\ NoCall /\ chip_data = "data" /\ ~freeing
    /\ freeing' = TRUE
    /\ pc' = [pc EXCEPT ![t] = "free_180"]
    /\ UNCHANGED <<hres_active, chip_data, data_vars, lock, timer, gpio, now, arg, ret, leaked, stopped>>

\* lines 181-182: gpiod_put; kfree.  pwm->chip_data is left pointing to the
\* freed gpio_pwm_data, whose fields are written here as zero.
FreePut(t) ==
    /\ pc[t] = "free_181"
    /\ chip_data' = "freed"
    /\ is_running' = FALSE
    /\ polarity' = FALSE
    /\ pin_on' = FALSE
    /\ on_time' = Wide(0, 0)
    /\ off_time' = Wide(0, 0)
    /\ freeing' = FALSE
    /\ pc' = [pc EXCEPT ![t] = "idle"]
    /\ lock' = 0
    /\ timer' = hrtimer_init
    /\ stopped' = "no"
    /\ UNCHANGED <<hres_active, gpio, now, arg, ret, leaked>>

\* ------------------------------------------- calls without channel data
\* The channel whose request has failed: pwm_set_chip_data was not reached,
\* pwm_get_chip_data returns what was there before, NULL or the pointer to
\* the gpio_pwm_data freed by an earlier free.
PartlyInitialized == chip_data # "data" /\ ret \in {-ENOMEM, -EGPIO}

\* gpio_pwm_disable, lines 130-132: gpio_data is NULL and
\* mutex_lock(&gpio_data->lock) dereferences it
DisableNull(t) ==
    /\ AllIdle /\ PartlyInitialized /\ chip_data = "null"
    /\ pc' = [pc EXCEPT ![t] = "oops"]
    /\ UNCHANGED <<hres_active, chip_data, data_vars, lock, timer, gpio, now, arg, ret,
                   freeing, leaked, stopped>>

\* gpio_pwm_free, lines 178-180: gpio_data is NULL, gpio_pwm_disable is
\* called and dereferences it
FreeNull(t) ==
    /\ AllIdle /\ PartlyInitialized /\ chip_data = "null"
    /\ freeing' = TRUE
    /\ pc' = [pc EXCEPT ![t] = "oops"]
    /\ UNCHANGED <<hres_active, chip_data, data_vars, lock, timer, gpio, now, arg, ret,
                   leaked, stopped>>

\* What a call does to the line through the pointer to freed memory: the
\* memory is read as whatever the allocator left in it, so the call finds the
\* channel stopped and leaves the line, or finds it running and drives the
\* line, through the descriptor that gpiod_put released, to the inactive
\* level of the polarity it reads there.  The block that a failed request
\* has got again is zeroed: the channel is found stopped.
LineAfterFree ==
    IF chip_data = "reused" THEN {gpio}
    ELSE {gpio, gpiod_set_value(0), gpiod_set_value(1)}

\* gpio_pwm_disable, lines 130-143, through the dangling pointer: a use
\* after free.  The call returns, or it is killed.
DisableFreed(t) ==
    /\ AllIdle /\ PartlyInitialized /\ chip_data \in {"freed", "reused"}
    /\ gpio' \in LineAfterFree
    /\ \/ pc' = [pc EXCEPT ![t] = "oops"]
       \/ pc' = pc
    /\ UNCHANGED <<hres_active, chip_data, data_vars, lock, timer, now, arg, ret,
                   freeing, leaked, stopped>>

\* gpio_pwm_free, lines 178-182, through the dangling pointer: a use after
\* free in gpio_pwm_disable, gpiod_put and a second kfree of the same block.
\* The call is killed, or it returns; where a failed request had got the
\* block again, the kfree releases that allocation.
FreeFreed(t) ==
    /\ AllIdle /\ PartlyInitialized /\ chip_data \in {"freed", "reused"}
    /\ gpio' \in LineAfterFree
    /\ \/ /\ freeing' = TRUE
          /\ pc' = [pc EXCEPT ![t] = "oops"]
          /\ UNCHANGED <<chip_data, leaked>>
       \/ /\ chip_data' = "freed"
          /\ leaked' = (IF chip_data = "reused" THEN leaked - 1 ELSE leaked)
          /\ UNCHANGED <<freeing, pc>>
    /\ UNCHANGED <<hres_active, data_vars, lock, timer, now, arg, ret, stopped>>

\* ------------------------------------------------------- mutex_lock
\* mutex_lock at lines 88, 100, 112 and 132 on the mutex that was never
\* initialised.  A caller that does not get the lock at once and has to sleep
\* is added to wait_list, whose pointers are NULL, and is killed.
\* The zeroed mutex reads as locked: every caller is such a caller.
MutexLockStuck(t) ==
    /\ DisableCalled(t)
    /\ lock = MUTEX_STUCK
    /\ pc' = [pc EXCEPT ![t] = "oops"]
    /\ UNCHANGED <<hres_active, chip_data, data_vars, lock, timer, gpio, now,
                   arg, ret, freeing, leaked, stopped>>

\* Another thread owns the mutex and the caller has to sleep.  It dies
\* holding wait_lock, so a later caller that finds the mutex locked spins on
\* wait_lock and gets no further.  (A caller that only spins until the owner
\* unlocks is the caller that has not yet taken its first step.)
MutexLockOops(t) ==
    /\ DisableCalled(t)
    /\ lock \in Threads
    /\ \A u \in Threads : pc[u] # "oops"
    /\ pc' = [pc EXCEPT ![t] = "oops"]
    /\ UNCHANGED <<hres_active, chip_data, data_vars, lock, timer, gpio, now,
                   arg, ret, freeing, leaked, stopped>>

\* -------------------------------------------------------- timer callback
\* the timer is enqueued and its expiry time has passed
hrtimer_expired(tm, nw) ==
    tm.queued /\ tm.cb = "none" /\ KtLeq(tm.expires, Wide(0, nw))

\* __run_hrtimer: the expired timer is dequeued and gpio_pwm_timer entered
TimerFire ==
    /\ hrtimer_expired(timer, now)
    /\ timer' = [timer EXCEPT !.queued = FALSE, !.cb = "entry"]
    /\ UNCHANGED <<hres_active, chip_data, data_vars, lock, gpio, now, pc, arg, ret,
                   freeing, leaked, stopped>>

\* gpio_pwm_timer, line 70, and gpio_pwm_on line 60 / gpio_pwm_off line 53:
\* pin_on is tested, polarity is read and the level to write is computed.
\* The callback holds no lock and gpiod_set_value_cansleep may sleep: the
\* write follows in a step of its own, and the store of pin_on in another.
TimerLevel ==
    /\ timer.cb = "entry"
    /\ timer' = [timer EXCEPT
                   !.cb = IF pin_on THEN "set_off" ELSE "set_on",
                   !.level = IF pin_on THEN gpio_pwm_off_value
                                       ELSE gpio_pwm_on_value]
    /\ UNCHANGED <<hres_active, chip_data, data_vars, lock, gpio, now, pc, arg, ret,
                   freeing, leaked, stopped>>

\* gpio_pwm_on lines 59-60 / gpio_pwm_off lines 52-53:
\* gpiod_set_value_cansleep with the level computed
TimerSetValue ==
    /\ timer.cb \in {"set_on", "set_off"}
    /\ gpio' = gpiod_set_value(timer.level)
    /\ timer' = [timer EXCEPT
                   !.cb = IF timer.cb = "set_on" THEN "wrote_on" ELSE "wrote_off",
                   !.level = 0]
    /\ UNCHANGED <<hres_active, chip_data, data_vars, lock, now, pc, arg, ret,
                   freeing, leaked, stopped>>

\* gpio_pwm_on line 61 / gpio_pwm_off line 54: the store of pin_on
TimerToggle ==
    /\ timer.cb \in {"wrote_on", "wrote_off"}
    /\ pin_on' = (timer.cb = "wrote_on")
    /\ timer' = [timer EXCEPT
                   !.cb = IF timer.cb = "wrote_on" THEN "on" ELSE "off"]
    /\ UNCHANGED <<hres_active, chip_data, is_running, polarity, on_time, off_time, lock,
                   gpio, now, pc, arg, ret, freeing, leaked, stopped>>

\* the interval gpio_pwm_timer passes to hrtimer_forward_now
TimerInterval == IF timer.cb = "on" THEN ns_to_ktime(on_time)
                                        ELSE ns_to_ktime(off_time)

\* mutant: the callback returns HRTIMER_NORESTART
TimerForwardNoRestart ==
    /\ timer.cb \in {"on", "off"}
    /\ timer' = [queued |-> FALSE,
                 expires |-> hrtimer_forward_now(timer.expires, TimerInterval),
                 cb |-> "none", level |-> 0]
    /\ UNCHANGED <<hres_active, chip_data, data_vars, lock, gpio, now, pc, arg, ret,
                   freeing, leaked, stopped>>

\* lines 72-73 and 76-80: hrtimer_forward_now; return HRTIMER_RESTART,
\* on which __run_hrtimer enqueues the timer again
TimerForward ==
    /\ timer.cb \in {"on", "off"}
    /\ timer' = [queued |-> TRUE,
                 expires |-> hrtimer_forward_now(timer.expires, TimerInterval),
                 cb |-> "none", level |-> 0]
    /\ UNCHANGED <<hres_active, chip_data, data_vars, lock, gpio, now, pc, arg, ret,
                   freeing, leaked, stopped>>

\* ----------------------------------------------------------------- clock
Tick ==
    /\ now < MaxTime
    /\ now' = now + 1
    /\ UNCHANGED <<hres_active, chip_data, data_vars, lock, timer, gpio, pc, arg, ret,
                   freeing, leaked, stopped>>

\* ------------------------------------------------------------------ Next
\* the steps of the timer interrupt and of the clock
TimerNext ==
    \/ TimerFire
    \/ TimerLevel
    \/ TimerSetValue
    \/ TimerToggle
    \/ TimerForward
    \/ Tick

Next ==
    \/ \E t \in Threads : RequestOk(t)
    \/ \E t \in Threads, d \in Ns, p \in Ns : ConfigLock(t, d, p)
    \/ \E t \in Threads : ConfigOffTime(t)
    \/ \E t \in Threads, p \in PwmPolarities : SetPolarityLock(t, p)
    \/ \E t \in Threads : SetPolarity(t)
    \/ \E t \in Threads : EnableLockBusy(t)
    \/ \E t \in Threads : EnableBusy(t)
    \/ \E t \in Threads : EnableLock(t)
    \/ \E t \in Threads : EnableStart(t)
    \/ \E t \in Threads : DisableLockStopped(t)
    \/ \E t \in Threads : DisableStopped(t)
    \/ \E t \in Threads : DisableLock(t)
    \/ \E t \in Threads : DisableCancel(t)
    \/ \E t \in Threads : DisableOff(t)
    \/ \E t \in Threads : FreeCall(t)
    \/ \E t \in Threads : FreePut(t)
    \/ \E t \in Threads : MutexLockStuck(t)
    \/ TimerNext

Spec == Init /\ [][Next]_vars

\* Next, and the caller that has to sleep in mutex_lock.  Such a step changes
\* nothing but the position of the caller, which takes no step after it; the
\* other threads, the timer and the clock go on as they do under Next.
NextContend ==
    \/ \E t \in Threads : MutexLockOops(t)
    \/ Next

ContendSpec == Init /\ [][NextContend]_vars

\* The channel driven by a single caller thread (the calls of several
\* threads are serialised by the lock), with the timer interrupt and the clock.
NextSingle ==
    \/ RequestOk(1)
    \/ \E d \in Ns, p \in Ns : ConfigLock(1, d, p)
    \/ ConfigOffTime(1)
    \/ \E p \in PwmPolarities : SetPolarityLock(1, p)
    \/ SetPolarity(1)
    \/ EnableLockBusy(1)
    \/ EnableBusy(1)
    \/ EnableLock(1)
    \/ EnableStart(1)
    \/ DisableLockStopped(1)
    \/ DisableStopped(1)
    \/ DisableLock(1)
    \/ DisableCancel(1)
    \/ DisableOff(1)
    \/ FreeCall(1)
    \/ FreePut(1)
    \/ MutexLockStuck(1)
    \/ TimerNext

\* The life of the channel with the failing paths of request, and with
\* disable and free called after a failed request.
NextLife ==
    \/ RequestNoMem(1)
    \/ RequestNoGpio(1)
    \/ DisableNull(1)
    \/ FreeNull(1)
    \/ DisableFreed(1)
    \/ FreeFreed(1)
    \/ NextSingle

LifeSpec == Init /\ [][NextLife]_vars

\* The clock advances and an expired timer is run: the hrtimer interrupt runs
\* every enqueued timer whose expiry time has passed, and a callback that was
\* entered runs to its return.
FairSpec ==
    /\ Init /\ [][NextSingle]_vars
    /\ WF_vars(Tick)
    /\ WF_vars(TimerFire)
    /\ WF_vars(TimerLevel)
    /\ WF_vars(TimerSetValue)
    /\ WF_vars(TimerToggle)
    /\ WF_vars(TimerForward)

\* ================================================================ claims
TimerStep ==
    TimerFire \/ TimerLevel \/ TimerSetValue \/ TimerToggle \/ TimerForward

\* C1: once a call to disable has returned, and until enable starts the timer
\* again, the timer is neither pending nor executing, no step is a step of
\* the timer callback, the line is not written and pin_on does not change.
C1_QuietAfterDisable ==
    [][stopped # "no" =>
          /\ ~hrtimer_active(timer)
          /\ ~TimerStep
          /\ gpio' = gpio
          /\ pin_on' = pin_on]_vars

\* C1 witness: disable has returned on a running channel and the deadline
\* that was armed when it ran lies in the past.
C1_Witness ==
    /\ stopped \in {"on", "off"} /\ AllIdle
    /\ KtLess(timer.expires, Wide(0, now))

\* C2: enable on a running channel takes the -EBUSY path; on that path the
\* channel stays running, neither step of the call changes a field of the
\* channel, the timer (queued, deadline, callback position) or the line, and
\* the call returns -EBUSY with the lock free.
C2_EnableBusy ==
    [][\A t \in Threads :
          /\ (/\ is_running /\ pc[t] = "idle"
              /\ pc'[t] \in {"enable_115", "enable_120"}) =>
                 /\ pc'[t] = "enable_115"
                 /\ UNCHANGED <<chip_data, data_vars, timer, gpio, ret>>
          /\ pc[t] = "enable_115" => is_running /\ is_running'
          /\ EnableBusy(t) =>
                 /\ ret' = -EBUSY
                 /\ lock' = 0 /\ pc'[t] = "idle"
                 /\ UNCHANGED <<chip_data, data_vars, timer, gpio>>]_vars

\* C2 witness: enable has returned -EBUSY while the first cycle is under way.
C2_Witness ==
    /\ ret = -EBUSY /\ is_running /\ AllIdle
    /\ timer.queued /\ pin_on

\* C3: whenever no operation holds the lock, is_running holds exactly when
\* the timer is armed (a firing is pending or executing).
C3_RunningIffArmed ==
    (chip_data = "data" /\ lock = 0) => (is_running <=> hrtimer_active(timer))

\* C3 witness: a running channel with the lock free while an INACTIVE firing
\* is executing, at a time after 0.
C3_Witness ==
    /\ chip_data = "data" /\ lock = 0 /\ is_running
    /\ timer.cb = "off" /\ now > 0

\* C4: disable on a stopped channel takes the early return; on that path
\* the channel stays stopped with the timer not armed, neither step of the
\* call changes a field, the timer or the line, and the call returns with
\* the lock free; and after a disable has returned the channel is stopped,
\* so that a second disable is that no-op.
C4_DisableIdempotent ==
    [][/\ (stopped # "no" /\ lock = 0) =>
              (~is_running /\ ~pin_on /\ ~hrtimer_active(timer))
       /\ \A t \in Threads :
              /\ (/\ ~is_running /\ pc[t] \in {"idle", "free_180"}
                  /\ pc'[t] \in {"disable_135", "disable_139"}) =>
                     /\ pc'[t] = "disable_135"
                     /\ UNCHANGED <<chip_data, data_vars, timer, gpio, ret>>
              /\ pc[t] = "disable_135" =>
                     /\ ~is_running /\ ~is_running'
                     /\ ~hrtimer_active(timer) /\ timer' = timer
                     /\ gpio' = gpio
              /\ DisableStopped(t) =>
                     /\ UNCHANGED <<chip_data, data_vars, timer, gpio, ret>>
                     /\ lock' = 0
                     /\ pc'[t] \in {"idle", "free_181"}]_vars

\* C4 witness: a second disable in a row has returned.
C4_Witness == stopped = "again" /\ AllIdle /\ ~freeing

\* C5: the step on which disable of a running channel returns leaves the
\* channel stopped, the timer not armed, pin_on false, and has written the
\* inactive level for the polarity to the line, whatever the phase was.
C5_DisableStops ==
    [][\A t \in Threads : DisableOff(t) =>
          /\ ~is_running' /\ ~pin_on'
          /\ ~hrtimer_active(timer')
          /\ lock' = 0
          /\ gpio'.seq # gpio.seq
          /\ gpio'.value = (IF polarity THEN 1 ELSE 0)]_vars

\* C5 witness: disable has stopped an inverted channel in its ACTIVE phase
\* and the line is high.
C5_Witness ==
    /\ stopped = "on" /\ AllIdle /\ polarity /\ gpio.value = 1

\* C6: enable arms the timer with zero delay while pin_on is false, so the
\* first firing is ACTIVE; every firing drives the phase opposite to the one
\* before it, and nothing else changes the phase of a running channel but the
\* disable that stops it; every firing ends with the timer queued again; a
\* queued timer leaves the queue only by firing or by the cancel in disable;
\* and every deadline armed within the clock's range does leave it.
C6_Alternates ==
    /\ [][/\ \A t \in Threads : EnableStart(t) =>
                 /\ ~pin_on
                 /\ timer'.expires = Wide(0, now)
                 /\ hrtimer_expired(timer', now')
          /\ TimerToggle =>
                 /\ pin_on' = ~pin_on
                 /\ timer'.cb = (IF pin_on THEN "off" ELSE "on")
          /\ (is_running /\ pin_on' # pin_on) =>
                 (TimerToggle \/ \E t \in Threads : DisableOff(t))
          /\ TimerForward => timer'.queued
          /\ (timer.queued /\ ~timer'.queued) =>
                 (TimerFire \/ \E t \in Threads : DisableCancel(t))]_vars
    /\ (timer.queued /\ KtLeq(timer.expires, Wide(0, MaxTime)))
           ~> ~timer.queued

\* C6 witness: a later ACTIVE firing (its expected time is after 0) is
\* executing on a running channel.
C6_Witness ==
    /\ is_running /\ timer.cb = "on" /\ pin_on
    /\ KtLess(Wide(0, 0), timer.expires)

\* C7: with a configuration period_ns >= duty_ns >= 0 in force (no config
\* call in progress, a period above 0) and a callback that runs at its
\* expected time, the deadline set by a firing is the firing's expected time
\* plus on_time (ACTIVE) or plus off_time (INACTIVE).
C7_PhaseDurations ==
    [][(/\ TimerForward
        /\ \A t \in Threads : pc[t] # "config_90"
        /\ on_time.hi = 0 /\ off_time.hi = 0
        /\ on_time.lo + off_time.lo > 0
        /\ timer.expires = Wide(0, now)) =>
           timer'.expires = KtAdd(timer.expires, TimerInterval)]_vars

\* C8: the level a firing computes from the polarity it reads is the level
\* of its phase for the normal polarity (ACTIVE high, INACTIVE low) and the
\* opposite level for the inversed polarity, that level is what the firing
\* writes to the line, and the phase it then stores in pin_on is the phase
\* of that level; likewise for the write in disable.
C8_PolarityLevels ==
    [][LET normal(active) == IF active THEN 1 ELSE 0
           written(active) == IF polarity THEN 1 - normal(active)
                                          ELSE normal(active)
       IN /\ TimerLevel =>
                 /\ timer'.cb = (IF pin_on THEN "set_off" ELSE "set_on")
                 /\ timer'.level = written(~pin_on)
          /\ TimerSetValue =>
                 /\ gpio'.seq # gpio.seq
                 /\ gpio'.value = timer.level
                 /\ timer'.cb = (IF timer.cb = "set_on" THEN "wrote_on"
                                                        ELSE "wrote_off")
          /\ TimerToggle =>
                 /\ pin_on' = (timer.cb = "wrote_on")
                 /\ gpio' = gpio
          /\ \A t \in Threads : DisableOff(t) =>
                 /\ gpio'.seq # gpio.seq
                 /\ gpio'.value = written(FALSE)]_vars

\* C8 witness: an ACTIVE firing has written low under the inversed polarity.
C8_Witness == timer.cb = "on" /\ polarity /\ gpio.value = 0

\* C9: config returns 0 and has set on_time to duty_ns and off_time to
\* period_ns - duty_ns (as unsigned int: 2^32 more when that is negative);
\* no step of it writes the line or changes pin_on, polarity, is_running or
\* the timer.
C9_ConfigFrame ==
    [][\A t \in Threads :
          /\ (pc[t] = "idle" /\ pc'[t] = "config_90") =>
                 UNCHANGED <<chip_data, is_running, polarity, pin_on, timer, gpio>>
          /\ ConfigOffTime(t) =>
                 /\ UNCHANGED <<chip_data, is_running, polarity, pin_on, timer, gpio>>
                 /\ ret' = 0
                 /\ lock' = 0
                 /\ on_time' = Wide(0, arg[t][1])
                 /\ off_time' = (IF arg[t][2] >= arg[t][1]
                                 THEN Wide(0, arg[t][2] - arg[t][1])
                                 ELSE Wide(1, arg[t][2] - arg[t][1]))]_vars

\* C9 witness: config(1, 2) has returned on a running channel whose timer is
\* pending in the ACTIVE phase.
C9_Witness ==
    /\ AllIdle /\ ret = 0 /\ is_running /\ pin_on /\ timer.queued
    /\ on_time = Wide(0, 1) /\ off_time = Wide(0, 1)

\* C10: the step on which request returns 0 leaves the polarity normal, the
\* channel not running, pin_on false, the timer not armed, no thread owning
\* the lock and the line driven low.
C10_RequestSafeState ==
    [][\A t \in Threads : RequestOk(t) =>
          /\ ret' = 0 /\ chip_data' = "data"
          /\ ~polarity' /\ ~is_running' /\ ~pin_on'
          /\ ~hrtimer_active(timer') /\ lock' \notin Threads
          /\ gpio'.seq # gpio.seq /\ gpio'.value = 0]_vars

\* C10 witness: a channel requested again after an earlier use (the line has
\* been written an even number of times) and not yet enabled.
C10_Witness ==
    /\ chip_data = "data" /\ AllIdle /\ ~is_running /\ stopped = "no"
    /\ ~polarity /\ gpio = [value |-> 0, seq |-> 0]

\* C11: no request that has failed leaves an allocation behind: nothing
\* allocated by a request is left with no reference to it.
C11_NoLeak == leaked = 0

\* C20: disable and free never end in the dereference of a bad pointer,
\* whatever the state of the channel, also on the channel whose request has
\* failed.
C20_NoCrash == \A t \in Threads : pc[t] # "oops"

\* C12: free releases the output handle and the channel state only after
\* disable: at that step the timer is neither enqueued nor running its
\* callback, the channel is stopped with the lock free, and if this free
\* stopped a running channel the pin is at the inactive level; while no
\* channel state is attached no step of the timer callback happens.
C12_FreeAfterDisable ==
    [][ /\ \A t \in Threads : FreePut(t) =>
             /\ ~hrtimer_active(timer)
             /\ ~is_running /\ ~pin_on /\ lock = 0
             /\ stopped \in {"on", "off"} => gpio.value = gpio_pwm_off_value
        /\ chip_data # "data" => ~TimerStep /\ ~hrtimer_active(timer')
      ]_vars

\* free has stopped a channel running in its ACTIVE phase with inverted
\* polarity and is about to release it
C12_Witness ==
    \E t \in Threads : pc[t] = "free_181" /\ stopped = "on" /\ polarity

\* C13: the timer callback is never in flight while a caller holds the
\* channel lock: the callback and the locked sections of configure,
\* set_polarity, enable and disable exclude each other.
C13_CallbackExcluded == lock # 0 => timer.cb = "none"

\* C14 as stated: the deadline is forwarded from the expected time, not
\* from the time the callback runs: enable sets the first deadline to the
\* enable time, and a firing whose latency is below the duration of the
\* phase it starts sets the next deadline to its own deadline plus that
\* duration (on_time after an ACTIVE firing, off_time after an INACTIVE
\* one), which lies in the future.
C14_ForwardFromExpected ==
    [][ /\ (\E t \in Threads : EnableStart(t)) =>
              timer'.expires = Wide(0, now)
        /\ (TimerForward
              /\ KtLess(Wide(0, now - timer.expires.lo), TimerInterval)) =>
              /\ timer'.expires = KtAdd(timer.expires, TimerInterval)
              /\ KtLess(Wide(0, now), timer'.expires)
      ]_vars

\* C14 amended: as stated, for a phase whose duration is not below the
\* timer resolution (1 ns with high resolution timers active, one tick
\* without); a shorter phase is forwarded by the resolution.
C14_ForwardAtResolution ==
    [][ /\ (\E t \in Threads : EnableStart(t)) =>
              timer'.expires = Wide(0, now)
        /\ (TimerForward
              /\ KtLess(Wide(0, now - timer.expires.lo), TimerInterval)) =>
              /\ KtLess(Wide(0, now), timer'.expires)
              /\ timer'.expires =
                    (IF KtLess(TimerInterval, Wide(0, hrtimer_resolution))
                     THEN KtAdd(timer.expires, Wide(0, hrtimer_resolution))
                     ELSE KtAdd(timer.expires, TimerInterval))
      ]_vars

\* a callback runs late, by less than the duration of the phase it starts,
\* which is not below the resolution
C14_Witness ==
    /\ timer.cb \in {"on", "off"}
    /\ 0 < now - timer.expires.lo
    /\ KtLess(Wide(0, now - timer.expires.lo), TimerInterval)
    /\ KtLeq(Wide(0, hrtimer_resolution), TimerInterval)
    /\ TimerInterval.hi = 0

\* C15: set_polarity returns 0 and stores the polarity (inversed for the
\* argument 1, normal for 0) and nothing else:
\* pin_on, is_running, on_time, off_time, the timer and the pin are left
\* alone. The pin is written only by the timer callback and by disable
\* (and claimed by request), and each such write uses the polarity stored
\* at the moment of the write, so the polarity of the last set_polarity
\* call that has returned.
C15_PolarityFrame ==
    [][ /\ \A t \in Threads :
             /\ (pc[t] = "idle" /\ pc'[t] = "polarity_102") =>
                    UNCHANGED <<chip_data, data_vars, timer, gpio, ret>>
             /\ SetPolarity(t) =>
                    /\ ret' = 0
                    /\ polarity' = (arg[t][1] = 1)
                    /\ lock' = 0 /\ pc'[t] = "idle"
                    /\ UNCHANGED <<chip_data, is_running, pin_on, on_time,
                                   off_time, timer, gpio>>
        /\ gpio' # gpio =>
             \/ \E t \in Threads : RequestOk(t)
             \/ /\ TimerSetValue
                /\ polarity' = polarity
                /\ gpio'.value =
                      (IF polarity = (timer.cb = "set_on") THEN 0 ELSE 1)
             \/ /\ \E t \in Threads : DisableOff(t)
                /\ polarity' = polarity
                /\ gpio'.value = (IF polarity THEN 1 ELSE 0)
      ]_vars

\* C16: a configure call on a running channel leaves the phase in progress
\* as it is: the pending deadline is not changed, and a phase whose pin
\* write has happened keeps the duration stored when it began (the interval
\* its firing is about to reschedule with is not changed).
C16_PhaseInProgressKept ==
    [][ (/\ is_running
         /\ \E t \in Threads :
               \/ pc[t] = "idle" /\ pc'[t] = "config_90"
               \/ ConfigOffTime(t)) =>
            /\ timer' = timer
            /\ timer.cb \in {"on", "off"} => TimerInterval' = TimerInterval
      ]_vars

\* C17: configure with period_ns < duty_ns is carried out like any other
\* call: it returns 0 with the lock released, on_time is duty_ns and
\* off_time is period_ns - duty_ns + 2^32; an INACTIVE firing of a running
\* channel then sets its deadline that wrapped duration ahead.
C17_WrappedOffTime ==
    [][ /\ \A t \in Threads :
             (ConfigOffTime(t) /\ arg[t][2] < arg[t][1]) =>
                 /\ ret' = 0 /\ lock' = 0 /\ pc'[t] = "idle"
                 /\ on_time' = Wide(0, arg[t][1])
                 /\ off_time' = Wide(1, arg[t][2] - arg[t][1])
        /\ (TimerForward /\ timer.cb = "off" /\ off_time.hi = 1) =>
             timer'.expires = KtAdd(timer.expires, off_time)
      ]_vars

\* the INACTIVE phase of a running channel is pending with a deadline more
\* than 2^32 - MaxNs ns ahead
C17_Witness ==
    /\ is_running /\ ~pin_on /\ timer.queued /\ timer.expires.hi = 1
    /\ off_time.hi = 1 /\ off_time.lo < 0

\* C18: no call is killed inside mutex_lock: every call of disable (and of
\* configure, set_polarity and enable) gets the lock, so that it can go on
\* to its return.
C18_CallGetsLock == [][\A t \in Threads : ~MutexLockOops(t)]_vars

\* C19 as stated: whenever the channel is stopped and no call is in
\* progress, pin_on is false and the pin is at the inactive level of the
\* current polarity.
C19_RestingLevel ==
    (chip_data = "data" /\ ~is_running /\ AllIdle) =>
        ~pin_on /\ gpio.value = gpio_pwm_off_value

\* C19 amended: whenever the channel is stopped pin_on is false; request
\* and disable leave the pin at the inactive level of the current polarity,
\* and a stopped channel is off that level only after a set_polarity call
\* that changed the polarity while it was stopped (set_polarity does not
\* write the pin).
C19_RestingLevelKept ==
    /\ []((chip_data = "data" /\ ~is_running) => ~pin_on)
    /\ [][ (/\ chip_data' = "data" /\ ~is_running'
            /\ gpio'.value # (IF polarity' THEN 1 ELSE 0)) =>
               /\ chip_data = "data" /\ ~is_running
               /\ gpio' = gpio
               /\ \/ gpio.value # gpio_pwm_off_value
                  \/ polarity' # polarity
         ]_vars

\* disable has stopped the channel under inverted polarity, then
\* set_polarity(normal) has returned: the pin is still high
C19_Witness ==
    /\ chip_data = "data" /\ ~is_running /\ AllIdle
    /\ stopped \in {"on", "off"}
    /\ ~polarity /\ ~pin_on /\ gpio.value = 1

====
